---- MODULE Spec2Model ----
(***************************************************************************)
(* Model of CausalGraph (src/CausalGraph.py): adjustment-set search on a   *)
(* causal DAG.  A node is a Python string, modelled as the tuple of its    *)
(* characters, because the code hands node names to set.union and to       *)
(* nx.node_boundary, which iterate over a string character by character.   *)
(* A directed graph is [nodes, edges] with edges a set of pairs <<u, v>>;  *)
(* an undirected graph is [nodes, edges] with edges a set of sets {u, v}.  *)
(* A call either returns a value, Ok(v), or raises, Raise(e).              *)
(***************************************************************************)
EXTENDS Naturals, Integers, Sequences, FiniteSets, TLC

VARIABLES nodes, edges, treatment, outcome, L, N, Nview, op, ret

vars == <<nodes, edges, treatment, outcome, L, N, Nview, op, ret>>

\* ---------------------------------------------------------------- bounds
\* Nodes of the graphs of Spec, and of the graphs of SpecCut.
NumNodes == 4

CutNodes == 5

\* Largest L, and largest number of nodes left out of N.
MaxL == 1

MaxHidden == 1

\* Node names, in a topological order of the graphs drawn; the fourth name
\* has two characters.
Pool == << <<"A">>, <<"B">>, <<"C">>, <<"Y", "1">>, <<"E">>, <<"F">>, <<"G">> >>

FirstNodes(k) == {Pool[i] : i \in 1..k}

Pos(n) == CHOOSE i \in DOMAIN Pool : Pool[i] = n

ForwardEdges(S) == {e \in S \X S : Pos(e[1]) < Pos(e[2])}

AtMost(S, k) == {T \in SUBSET S : Cardinality(T) <= k}

\* ------------------------------------------------------------ call results
Ok(v) == [kind |-> "ok", val |-> v]

Raise(e) == [kind |-> "raise", val |-> e]

IsOk(r) == r.kind = "ok"

\* Iterating over a Python string yields its one-character strings.
Chars(name) == {<<name[i]>> : i \in DOMAIN name}

Range(s) == {s[i] : i \in DOMAIN s}

\* ------------------------------------------------------- networkx helpers
Self == [nodes |-> nodes, edges |-> edges]

Succ(G, u) == {e[2] : e \in {d \in G.edges : d[1] = u}}

Pred(G, u) == {e[1] : e \in {d \in G.edges : d[2] = u}}

Nbrs(H, u) == {v \in H.nodes : {u, v} \in H.edges}

\* nx.descendants / nx.ancestors: strict.
RECURSIVE SuccClosure(_, _)
SuccClosure(G, S) ==
  LET T == S \cup UNION {Succ(G, u) : u \in S}
  IN IF T = S THEN S ELSE SuccClosure(G, T)

RECURSIVE PredClosure(_, _)
PredClosure(G, S) ==
  LET T == S \cup UNION {Pred(G, u) : u \in S}
  IN IF T = S THEN S ELSE PredClosure(G, T)

descendants(G, n) == SuccClosure(G, {n}) \ {n}

ancestors(G, n) == PredClosure(G, {n}) \ {n}

RECURSIVE NbrsClosure(_, _)
NbrsClosure(H, S) ==
  LET T == S \cup UNION {Nbrs(H, u) : u \in S}
  IN IF T = S THEN S ELSE NbrsClosure(H, T)

\* nx.node_connected_component(H, n); raises KeyError when n is not in H,
\* which callers model before they call this.
node_connected_component(H, n) == NbrsClosure(H, {n})

\* nx.all_simple_paths on a directed graph, as the set of node sequences.
RECURSIVE ExtendPaths(_, _, _)
ExtendPaths(G, path, target) ==
  LET last == path[Len(path)]
  IN IF last = target THEN {path}
     ELSE UNION {ExtendPaths(G, Append(path, v), target) : v \in Succ(G, last) \ Range(path)}

all_simple_paths(G, s, t) ==
  IF s = t THEN {} ELSE ExtendPaths(G, <<s>>, t)

\* nx.all_simple_paths on an undirected graph.
RECURSIVE ExtendUPaths(_, _, _)
ExtendUPaths(H, path, target) ==
  LET last == path[Len(path)]
  IN IF last = target THEN {path}
     ELSE UNION {ExtendUPaths(H, Append(path, v), target) : v \in Nbrs(H, last) \ Range(path)}

all_simple_upaths(H, s, t) ==
  IF s = t THEN {} ELSE ExtendUPaths(H, <<s>>, t)

subgraph(G, S) ==
  [nodes |-> G.nodes \cap S,
   edges |-> {e \in G.edges : e[1] \in S /\ e[2] \in S}]

usubgraph(H, S) ==
  [nodes |-> H.nodes \cap S, edges |-> {e \in H.edges : e \subseteq S}]

\* nx.node_boundary(H, nbunch): nbunch is iterated, members outside H dropped.
node_boundary(H, nbunch) ==
  LET nset1 == nbunch \cap H.nodes
  IN UNION {Nbrs(H, v) : v \in nset1} \ nset1

\* nx.moral_graph: undirected copy plus an edge between each two parents.
moral_graph(G) ==
  [nodes |-> G.nodes,
   edges |-> {{e[1], e[2]} : e \in G.edges}
             \cup UNION {{{p, q} : p, q \in Pred(G, c)} \ {{p} : p \in Pred(G, c)}
                         : c \in G.nodes}]

\* --------------------------------------------------------------- methods
ancestors_all(G, ns) == UNION {ancestors(G, n) : n \in ns} \cup ns

\* Gbd.remove_edge raises NetworkXError for an edge that is already gone,
\* which happens when two simple paths share their first edge.
backdoor_graph(G, t, o) ==
  LET paths == all_simple_paths(G, t, o)
      first(p) == <<p[1], p[2]>>
  IN IF \E p, q \in paths : p # q /\ first(p) = first(q)
     THEN Raise("NetworkXError")
     ELSE Ok([nodes |-> G.nodes, edges |-> G.edges \ {first(p) : p \in paths}])

\* set.remove(treatment) raises KeyError on the empty set.
causal_vertices(G, t, o) ==
  LET paths == all_simple_paths(G, t, o)
      cv == UNION {Range(p) : p \in paths}
  IN IF t \in cv THEN Ok(cv \ {t}) ELSE Raise("KeyError")

forbidden(G, t, o) ==
  LET cv == causal_vertices(G, t, o)
  IN IF ~IsOk(cv) THEN cv
     ELSE Ok(UNION {descendants(G, n) \cup Chars(n) : n \in cv.val} \cup Chars(t))

ignore(G, t, o, Lq, Nq) ==
  LET set1 == ancestors_all(G, Lq \cup {t, o}) \ {t, o}
      fb == forbidden(G, t, o)
  IN IF ~IsOk(fb) THEN fb
     ELSE Ok(set1 \cap ((G.nodes \ Nq) \cup fb.val))

unblocked(H, t, Z) ==
  LET G2 == usubgraph(H, H.nodes \ Z)
  IN IF t \notin G2.nodes THEN Raise("KeyError")
     ELSE Ok(node_boundary(H, node_connected_component(G2, t)))

build_H0(G, t, o, Lq) ==
  LET anc == ancestors_all(G, Lq \cup {t, o})
      G3 == backdoor_graph(subgraph(G, anc), t, o)
  IN IF ~IsOk(G3) THEN G3 ELSE Ok(moral_graph(G3.val))

build_H1(G, t, o, Lq, Nq) ==
  LET H0 == build_H0(G, t, o, Lq)
      ig == ignore(G, t, o, Lq, Nq)
  IN IF ~IsOk(H0) THEN H0
     ELSE IF ~IsOk(ig) THEN ig
     ELSE LET kept == H0.val.nodes \ ig.val
              linked == {pr \in kept \X kept :
                           /\ pr[1] # pr[2]
                           /\ \E p \in all_simple_upaths(H0.val, pr[1], pr[2]) :
                                Range(p) \subseteq ig.val \cup {pr[1], pr[2]}}
          IN Ok([nodes |-> kept \cup Lq,
                 edges |-> usubgraph(H0.val, kept).edges
                           \cup {{pr[1], pr[2]} : pr \in linked}
                           \cup {{t, n} : n \in Lq} \cup {{n, o} : n \in Lq}])

ConditionMessage == "Conditions to guarantee the existence of an optimal adjustment set are not satisfied"

\* N == self.nodes() compares N with the graph's NodeView: it holds only when
\* the caller passed that view itself (Nview), never for a list or a set.
optimal_adj_set(G, t, o, Lq, Nq, view) ==
  LET H1g == build_H1(G, t, o, Lq, Nq)
  IN IF ~IsOk(H1g) THEN H1g
     ELSE IF view \/ Nq \subseteq ancestors_all(G, Lq \cup {t, o})
          THEN Ok(node_boundary(H1g.val, Chars(o)))
          ELSE [kind |-> "str", val |-> ConditionMessage]

optimal_minimal_adj_set(G, t, o, Lq, Nq) ==
  LET H1g == build_H1(G, t, o, Lq, Nq)
  IN IF ~IsOk(H1g) THEN H1g
     ELSE unblocked(H1g.val, t, node_boundary(H1g.val, {o}))

\* nx.minimum_node_cut(H, s, t): the cuts it may return, all of one size;
\* the empty cut when s and t are adjacent.
Separates(H, S, s, t) ==
  t \notin node_connected_component(usubgraph(H, H.nodes \ S), s)

minimum_node_cut(H, s, t) ==
  IF {s, t} \in H.edges THEN {{}}
  ELSE LET cuts == {S \in SUBSET (H.nodes \ {s, t}) : Separates(H, S, s, t)}
       IN {S \in cuts : \A S2 \in cuts : Cardinality(S) <= Cardinality(S2)}

LenMinimumNodeCut(H, s, t) ==
  Cardinality(CHOOSE c \in minimum_node_cut(H, s, t) : TRUE)

\* isInMinimum with m1 <= m2 for m1 == m2.
isInMinimumAtMost(H, t, o, node) ==
  LET m1 == LenMinimumNodeCut(H, t, o)
      H_mod == [nodes |-> H.nodes \cup {node},
                edges |-> H.edges \cup {{t, node}, {o, node}}]
      m2 == LenMinimumNodeCut(H_mod, t, o)
  IN m1 <= m2

isInMinimum(H, t, o, node) ==
  LET m1 == LenMinimumNodeCut(H, t, o)
      H_mod == [nodes |-> H.nodes \cup {node},
                edges |-> H.edges \cup {{t, node}, {o, node}}]
      m2 == LenMinimumNodeCut(H_mod, t, o)
  IN m1 = m2

Interior(p) == Range(p) \ {p[1], p[Len(p)]}

\* All sets of paths of `paths` whose interiors are pairwise disjoint and
\* avoid `used`; paths with distinct interiors leave the source differently.
RECURSIVE DisjointFamilies(_, _)
DisjointFamilies(paths, used) ==
  LET avail == {p \in paths : Interior(p) \cap used = {}}
  IN IF avail = {} THEN {{}}
     ELSE LET first == CHOOSE v \in {p[2] : p \in avail} : TRUE
              via == {p \in avail : p[2] = first}
              rest == avail \ via
          IN DisjointFamilies(rest, used)
             \cup UNION {{F \cup {p} : F \in DisjointFamilies(rest, used \cup Interior(p))}
                         : p \in via}

\* nx.node_disjoint_paths(H, s, t): some maximum family of node-disjoint
\* paths; which one depends on the flow algorithm, so every one is possible.
node_disjoint_paths(H, s, t) ==
  LET fams == DisjointFamilies(all_simple_upaths(H, s, t), {})
  IN {F \in fams : \A F2 \in fams : Cardinality(F2) <= Cardinality(F)}

\* The inner loop of optimal_minimum_adj_set from position i of a path: the
\* outcome is skipped, the first node in a minimum cut is added, then break.
RECURSIVE ScanPath(_, _, _, _, _)
ScanPath(H1g, t, o, p, i) ==
  IF i > Len(p) THEN {}
  ELSE IF p[i] = o THEN ScanPath(H1g, t, o, p, i + 1)
  ELSE IF isInMinimum(H1g, t, o, p[i]) THEN {p[i]}
  ELSE ScanPath(H1g, t, o, p, i + 1)

\* The loop of optimal_minimum_adj_set without its break.
PickMinimumNoBreak(H1g, t, o, F) ==
  UNION {{p[i] : i \in {j \in 1..Len(p) : p[j] # o /\ isInMinimum(H1g, t, o, p[j])}} : p \in F}

\* The loop of optimal_minimum_adj_set over one family of paths.
PickMinimum(H1g, t, o, F) == UNION {ScanPath(H1g, t, o, p, 1) : p \in F}

\* The possible results of optimal_minimum_adj_set.
optimal_minimum_adj_set(G, t, o, Lq, Nq) ==
  LET H1g == build_H1(G, t, o, Lq, Nq)
  IN IF ~IsOk(H1g) THEN {H1g}
     ELSE IF o \notin node_connected_component(H1g.val, t) THEN {Ok({})}
     ELSE {Ok(PickMinimum(H1g.val, t, o, F)) : F \in node_disjoint_paths(H1g.val, o, t)}

\* ------------------------------------------------------------------ state
\* A graph on NumNodes nodes with a query on it: two distinct nodes, an L that
\* holds neither, and an N that holds both.  Nview marks N being the graph's
\* own node view, G.nodes(), rather than a list.
Init ==
  /\ nodes = FirstNodes(NumNodes)
  /\ edges \in SUBSET ForwardEdges(nodes)
  /\ treatment \in nodes
  /\ outcome \in nodes \ {treatment}
  /\ L \in AtMost(nodes \ {treatment, outcome}, MaxL)
  /\ \E U \in AtMost(nodes \ {treatment, outcome}, MaxHidden) : N = nodes \ U
  /\ Nview \in {b \in BOOLEAN : b => N = nodes}
  /\ op = "none"
  /\ ret = Ok({})

\* Graphs on CutNodes nodes with the outcome last in the topological order:
\* a node after the outcome is an ancestor of neither endpoint.
InitCut ==
  /\ nodes = FirstNodes(CutNodes)
  /\ edges \in SUBSET ForwardEdges(nodes)
  /\ outcome = Pool[CutNodes]
  /\ treatment \in nodes \ {outcome}
  /\ L \in AtMost(nodes \ {treatment, outcome}, MaxL)
  /\ \E U \in AtMost(nodes \ {treatment, outcome}, MaxHidden) : N = nodes \ U
  /\ Nview = FALSE
  /\ op = "none"
  /\ ret = Ok({})

\* One call per behaviour: the methods keep no state between calls, so a
\* second call on the same query would only repeat the first.
Idle == op = "none"

Query == UNCHANGED <<nodes, edges, treatment, outcome, L, N, Nview>>

CallBackdoorGraph ==
  /\ Idle
  /\ op' = "backdoor_graph"
  /\ ret' = backdoor_graph(Self, treatment, outcome)
  /\ Query

CallCausalVertices ==
  /\ Idle
  /\ op' = "causal_vertices"
  /\ ret' = causal_vertices(Self, treatment, outcome)
  /\ Query

CallForbidden ==
  /\ Idle
  /\ op' = "forbidden"
  /\ ret' = forbidden(Self, treatment, outcome)
  /\ Query

CallOptimalAdjSet ==
  /\ Idle
  /\ op' = "optimal_adj_set"
  /\ ret' = optimal_adj_set(Self, treatment, outcome, L, N, Nview)
  /\ Query

CallOptimalMinimalAdjSet ==
  /\ Idle
  /\ op' = "optimal_minimal_adj_set"
  /\ ret' = optimal_minimal_adj_set(Self, treatment, outcome, L, N)
  /\ Query

CallOptimalMinimumAdjSet ==
  /\ Idle
  /\ op' = "optimal_minimum_adj_set"
  /\ ret' \in optimal_minimum_adj_set(Self, treatment, outcome, L, N)
  /\ Query

Next ==
  \/ CallBackdoorGraph
  \/ CallCausalVertices
  \/ CallForbidden
  \/ CallOptimalAdjSet
  \/ CallOptimalMinimalAdjSet
  \/ CallOptimalMinimumAdjSet

Spec == Init /\ [][Next]_vars

NextCut ==
  \/ CallOptimalMinimalAdjSet
  \/ CallOptimalMinimumAdjSet

SpecCut == InitCut /\ [][NextCut]_vars

\* ----------------------------------------------------------------- claims
\* What the claims speak of, stated as the specification words it.

\* A directed path from the treatment to the outcome exists.
HasCausalPath == all_simple_paths(Self, treatment, outcome) # {}

\* Nodes on a directed path from the treatment to the outcome, but the treatment.
CausalNodes == UNION {Range(p) : p \in all_simple_paths(Self, treatment, outcome)} \ {treatment}

\* Causal-path nodes, their descendants, and the treatment.
ForbiddenSet == UNION {descendants(Self, n) \cup {n} : n \in CausalNodes} \cup {treatment}

FirstEdges == {<<p[1], p[2]>> : p \in all_simple_paths(Self, treatment, outcome)}

Anc == ancestors_all(Self, L \cup {treatment, outcome})

\* The moralized ancestral back-door graph.
MoralBackdoor ==
  LET G2 == subgraph(Self, Anc)
  IN moral_graph([nodes |-> G2.nodes, edges |-> G2.edges \ FirstEdges])

\* Some Z with L <= Z <= N minus forbidden separates treatment and outcome.
AdjustmentExists ==
  \E Z \in SUBSET (N \ (ForbiddenSet \cup {outcome})) :
    L \subseteq Z /\ Separates(MoralBackdoor, Z, treatment, outcome)

Precondition == N = nodes \/ N \subseteq Anc

H1 == build_H1(Self, treatment, outcome, L, N)

Searches == {"optimal_adj_set", "optimal_minimal_adj_set", "optimal_minimum_adj_set"}

Raises(e) == ret.kind = "raise" /\ ret.val = e

\* C1: when no valid adjustment set exists, each of the three searches fails
\* with NoAdjException.  (Stated for L within N minus forbidden, where H1
\* builds and, for optimal_adj_set, where its precondition on N holds, so that
\* no other failure is due.)
C1_NoAdjException ==
  (op \in Searches /\ IsOk(H1) /\ ~AdjustmentExists
     /\ L \subseteq N \ ForbiddenSet
     /\ (op = "optimal_adj_set" => Precondition))
    => Raises("NoAdjException")

\* C2: when N is neither the full node set nor within the ancestors of
\* L, treatment and outcome, optimal_adj_set fails with ConditionException
\* and returns no value.  (Stated where H1 builds.)
C2_ConditionException ==
  (op = "optimal_adj_set" /\ IsOk(H1) /\ ~Precondition) => Raises("ConditionException")

\* C3: when N is the full node set or within the ancestors, and an adjustment
\* set exists, optimal_adj_set returns the H1-neighbours of the outcome and
\* reports no precondition failure.  (Stated where H1 builds.)
C3_OptimalIsBoundary ==
  LET h == H1
  IN (op = "optimal_adj_set" /\ IsOk(h) /\ Precondition /\ AdjustmentExists)
       => (IsOk(ret) /\ ret.val = Nbrs(h.val, outcome))

\* C4: a set returned by a search holds no forbidden node, no node outside N
\* and not the outcome.  (Stated for L within N minus forbidden.)
C4_NoForbiddenReturned ==
  (op \in Searches /\ IsOk(ret) /\ L \subseteq N \ ForbiddenSet)
    => (ret.val \cap (ForbiddenSet \cup {outcome}) = {} /\ ret.val \subseteq N)

\* C5: with L within N minus forbidden and an adjustment set existing, every
\* node of L is in the set a search returns.
C5_LReturned ==
  (op \in Searches /\ IsOk(ret) /\ L \subseteq N \ ForbiddenSet /\ AdjustmentExists)
    => L \subseteq ret.val

\* C6: under the precondition of optimal_adj_set, with an adjustment set
\* existing, the optimal minimal set is a subset of the optimal set.
C6_MinimalInOptimal ==
  LET opt == optimal_adj_set(Self, treatment, outcome, L, N, Nview)
  IN (op = "optimal_minimal_adj_set" /\ IsOk(ret) /\ IsOk(opt)
        /\ Precondition /\ AdjustmentExists)
       => (ret.val \subseteq opt.val /\ Cardinality(ret.val) <= Cardinality(opt.val))

\* C7: when both return a set, the optimal minimum set is no larger than the
\* optimal minimal set.
C7_MinimumAtMostMinimal ==
  LET minimal == optimal_minimal_adj_set(Self, treatment, outcome, L, N)
  IN (op = "optimal_minimum_adj_set" /\ IsOk(ret) /\ IsOk(minimal))
       => Cardinality(ret.val) <= Cardinality(minimal.val)

\* Both searches return and the minimum set is strictly the smaller.
C7_Witness ==
  LET minimal == optimal_minimal_adj_set(Self, treatment, outcome, L, N)
  IN /\ op = "optimal_minimum_adj_set" /\ IsOk(ret) /\ IsOk(minimal)
     /\ Cardinality(ret.val) < Cardinality(minimal.val)

\* C8: with no directed path from treatment to outcome, causal_vertices
\* returns the empty set and forbidden returns {treatment}; neither fails.
C8_NoPathBoundary ==
  ~HasCausalPath =>
    /\ op = "causal_vertices" => (IsOk(ret) /\ ret.val = {})
    /\ op = "forbidden" => (IsOk(ret) /\ ret.val = {treatment})

\* C9: backdoor_graph returns the graph's nodes and its edges minus the first
\* edges of the directed paths from treatment to outcome, also when two paths
\* start with the same edge.
C9_BackdoorEdges ==
  op = "backdoor_graph" =>
    (IsOk(ret) /\ ret.val.nodes = nodes /\ ret.val.edges = edges \ FirstEdges)

\* optimal_minimum_adj_set returned on an H1 in which treatment and outcome
\* are connected but not adjacent.
CutCase(h) ==
  /\ op = "optimal_minimum_adj_set" /\ IsOk(ret) /\ IsOk(h)
  /\ outcome \in node_connected_component(h.val, treatment)
  /\ {treatment, outcome} \notin h.val.edges

\* C10: when treatment and outcome are connected but not adjacent in H1, the
\* set optimal_minimum_adj_set returns is a minimum vertex cut of H1, with
\* exactly one node, one for which isInMinimum holds, from each disjoint path.
C10_MinimumIsMinCut ==
  op = "optimal_minimum_adj_set" =>
    LET h == H1
    IN CutCase(h) =>
         /\ ret.val \subseteq h.val.nodes \ {treatment, outcome}
         /\ Separates(h.val, ret.val, treatment, outcome)
         /\ \A S \in SUBSET (h.val.nodes \ {treatment, outcome}) :
              Separates(h.val, S, treatment, outcome) => Cardinality(ret.val) <= Cardinality(S)
         /\ \A F \in node_disjoint_paths(h.val, outcome, treatment) :
              \A p \in F : Cardinality(ret.val \cap Range(p)) = 1
         /\ \A n \in ret.val : isInMinimum(h.val, treatment, outcome, n)

\* A returned cut none of whose nodes is a neighbour of the outcome.
C10_Witness ==
  /\ op = "optimal_minimum_adj_set"
  /\ LET h == H1
     IN CutCase(h) /\ ret.val # {} /\ ret.val \cap Nbrs(h.val, outcome) = {}

====
